---- MODULE Spec2Model ----
(***************************************************************************)
(* Model of the cluster registry and scheduler of the cluster lifecycle    *)
(* manager (controller/cluster_list.go): the ClusterList map of            *)
(* clusterInfo entries and its three operations UpdateAvailable,           *)
(* SelectNext and ClusterProcessed.  Each operation holds the ClusterList  *)
(* mutex from its first statement to its return (Lock / defer Unlock), so  *)
(* each is one atomic action.  The second part models the versioned       *)
(* config source (channel/git.go): the mirror, the checkout directories    *)
(* and the calls of Get, Delete and Update by concurrent goroutines.       *)
(***************************************************************************)
EXTENDS Naturals, Sequences, FiniteSets, TLC

VARIABLES
    clusters,     \* ClusterList.clusters: map from cluster ID to clusterInfo
    now,          \* the last reading of the clock (time.Now), non-decreasing
    op,           \* observer: the last call, its arguments, the IDs tracked before it
    ret,          \* observer: what the last SelectNext returned (<<>> is nil)
    outstanding,  \* observer: IDs returned by SelectNext and not yet reported processed
    pc,           \* position of the scripted caller (release cycle scenario)
    supplied,     \* observer: per ID, the data last taken over and last passed over
    bypass,       \* observer: per waiting ID, the returns of the others meanwhile
    remote,       \* the upstream repository: the revision each channel points to
    mirror,       \* Git.repoDir: the local mirror, <<>> while it does not exist
    mutex,        \* Git.mutex: TRUE while locked
    calls,        \* the calls of Get, Delete and Update under way, per goroutine
    workdir,      \* the checkout directories under Git.workdir, by path
    clock         \* the reading time.Now().UTC().UnixNano() gives

vars == <<clusters, now, op, ret, outstanding, pc, supplied, bypass,
          remote, mirror, mutex, calls, workdir, clock>>

\* The state of the registry, and the state of the config source.
list == <<clusters, now, op, ret, outstanding, pc, supplied, bypass>>

git == <<remote, mirror, mutex, calls, workdir, clock>>

----------------------------------------------------------------------------
(* Bounds and program constants *)

MaxTime == 2

Epoch == 0

updatePriorityNormal == 0

updatePriorityDecommissionRequested == 1

updatePriorityAlreadyUpdating == 2

statusReady == "ready"

statusDecommissionRequested == "decommission-requested"

statusDecommissioned == "decommissioned"

IDs == {"x", "y"}

Accounts == {"a1", "a2"}

AllowedAccounts == {"a1"}

\* accountFilter.Allowed: the configured include/exclude filter, by its extension
Allowed(account) == account \in AllowedAccounts

----------------------------------------------------------------------------
(* api.Cluster values: the fields the registry reads *)

Cluster(id, account, lifecycle, current, next) ==
    [ID |-> id, InfrastructureAccount |-> account, LifecycleStatus |-> lifecycle,
     CurrentVersion |-> current, NextVersion |-> next]

\* The inventory records supplied for one ID: ready, decommission requested and
\* decommissioned with no update underway, ready with an update underway, and a
\* ready cluster of a foreign account.
Records(id) ==
    {Cluster(id, "a1", l, "v1", "") :
        l \in {statusReady, statusDecommissionRequested, statusDecommissioned}}
    \cup
    {Cluster(id, "a1", statusReady, "v1", "v2"), Cluster(id, "a2", statusReady, "v1", "")}

\* One enumeration of a set of IDs.
Enumeration(D) ==
    CHOOSE s \in [1..Cardinality(D) -> D] :
        \A i, j \in 1..Cardinality(D) : i # j => s[i] # s[j]

\* Inventory snapshots with one record for each ID of a subset of ids.  The
\* loop body of UpdateAvailable touches only the entry of the record's own ID,
\* so one order of the IDs stands for all.
UniqueInputs(ids) ==
    UNION {
        {[i \in 1..Cardinality(D) |-> f[Enumeration(D)[i]]] :
            f \in {g \in [D -> UNION {Records(id) : id \in D}] :
                     \A id \in D : g[id].ID = id}}
        : D \in SUBSET ids}

\* Inventory snapshots that repeat an ID with two different records.
RepeatedInputs(ids) ==
    UNION {{<<r1, r2>> : r1, r2 \in Records(id)} : id \in ids}

\* The arguments handed to UpdateAvailable.
Inputs(ids) == UniqueInputs(ids) \cup RepeatedInputs(ids)

----------------------------------------------------------------------------
(* clusterInfo entries and the map *)

\* &clusterInfo{lastProcessed: time.Unix(0, 0), processing: false, cluster: cluster}
NewClusterInfo(cluster) ==
    [lastProcessed |-> Epoch, processing |-> FALSE, cluster |-> cluster]

\* clusterList.clusters[id] = info
Put(m, id, info) ==
    [k \in (DOMAIN m) \cup {id} |-> IF k = id THEN info ELSE m[k]]

\* NewClusterList: make(map[string]*clusterInfo)
EmptyMap == [k \in {} |-> NewClusterInfo(Cluster("", "", "", "", ""))]

----------------------------------------------------------------------------
(* UpdateAvailable *)

\* Passes without the lifecycle check.
PassesAccountOnly(cluster) == Allowed(cluster.InfrastructureAccount)

\* The two filters at the head of the loop body: a record passes when it is not
\* decommissioned and its infrastructure account is allowed.
Passes(cluster) ==
    /\ cluster.LifecycleStatus # statusDecommissioned
    /\ Allowed(cluster.InfrastructureAccount)

\* Refresh without the processing check.
RefreshAlways(existing, cluster) == [existing EXCEPT !.cluster = cluster]

\* Refresh that replaces the whole entry by a fresh one.
RefreshReplacing(existing, cluster) ==
    IF ~existing.processing THEN NewClusterInfo(cluster) ELSE existing

\* if !existing.processing { existing.cluster = cluster }
Refresh(existing, cluster) ==
    IF ~existing.processing THEN [existing EXCEPT !.cluster = cluster] ELSE existing

\* One iteration of the first loop on the pair (map, availableClusterIds).
UpdateOne(st, cluster) ==
    IF ~Passes(cluster) THEN st
    ELSE [availableClusterIds |-> st.availableClusterIds \cup {cluster.ID},
          clusters |->
             IF cluster.ID \in DOMAIN st.clusters
             THEN [st.clusters EXCEPT ![cluster.ID] = Refresh(@, cluster)]
             ELSE Put(st.clusters, cluster.ID, NewClusterInfo(cluster))]

\* for _, cluster := range availableClusters { ... }
RECURSIVE UpdateLoop(_, _, _)
UpdateLoop(st, availableClusters, i) ==
    IF i > Len(availableClusters) THEN st
    ELSE UpdateLoop(UpdateOne(st, availableClusters[i]), availableClusters, i + 1)

\* Keeps without the processing check.
KeepsAccepted(info, id, availableClusterIds) == id \in availableClusterIds

\* Keeps with the membership test inverted away: nothing is deleted.
KeepsAll(info, id, availableClusterIds) == TRUE

\* The second loop keeps an entry when it is processing or its ID was accepted.
Keeps(info, id, availableClusterIds) ==
    info.processing \/ id \in availableClusterIds

\* for id, cluster := range clusterList.clusters { ... delete(...) }
Sweep(m, availableClusterIds) ==
    [id \in {k \in DOMAIN m : Keeps(m[k], k, availableClusterIds)} |-> m[id]]

UpdateAvailableResult(m, availableClusters) ==
    LET st == UpdateLoop([availableClusterIds |-> {}, clusters |-> m],
                         availableClusters, 1)
    IN Sweep(st.clusters, st.availableClusterIds)

\* Observer of a call: its name, the ID passed to ClusterProcessed, the IDs
\* tracked before it, and of the argument of UpdateAvailable the IDs with a
\* record that passes both filters, the IDs with a decommissioned record and
\* the IDs whose entry was processing while a passing record carried other data.
Call(name, id, before, accepted, decommissioned, withheld) ==
    [name |-> name, id |-> id, before |-> before, accepted |-> accepted,
     decommissioned |-> decommissioned, withheld |-> withheld]

AcceptedIds(S) ==
    {S[i].ID : i \in {j \in 1..Len(S) :
        /\ S[j].LifecycleStatus # statusDecommissioned
        /\ S[j].InfrastructureAccount \in AllowedAccounts}}

DecommissionedIds(S) ==
    {S[i].ID : i \in {j \in 1..Len(S) : S[j].LifecycleStatus = statusDecommissioned}}

WithheldIds(m, S) ==
    {id \in DOMAIN m :
        /\ m[id].processing
        /\ \E i \in 1..Len(S) :
             /\ S[i].ID = id
             /\ S[i].LifecycleStatus # statusDecommissioned
             /\ S[i].InfrastructureAccount \in AllowedAccounts
             /\ S[i] # m[id].cluster}

UpdateAvailableCall(availableClusters) ==
    /\ clusters' = UpdateAvailableResult(clusters, availableClusters)
    /\ op' = Call("UpdateAvailable", "", DOMAIN clusters,
                  AcceptedIds(availableClusters),
                  DecommissionedIds(availableClusters),
                  WithheldIds(clusters, availableClusters))
    /\ UNCHANGED <<now, ret, outstanding>>

\* UpdateAvailable called by a caller that follows no script.
UpdateAvailable(availableClusters) ==
    UpdateAvailableCall(availableClusters) /\ UNCHANGED <<pc, supplied, bypass, git>>

----------------------------------------------------------------------------
(* SelectNext *)

\* updatePriority
updatePriority(cluster) ==
    IF cluster.NextVersion # "" /\ cluster.NextVersion # cluster.CurrentVersion
    THEN updatePriorityAlreadyUpdating
    ELSE IF cluster.LifecycleStatus = statusDecommissionRequested
         THEN updatePriorityDecommissionRequested
         ELSE updatePriorityNormal

\* Skipped without the processing check.
SkippedNever(info) == FALSE

\* if cluster.processing { continue }
Skipped(info) == info.processing

\* Preferred with the comparison of lastProcessed turned around.
PreferredNewest(priority, info, nextClusterPriority, nextInfo) ==
    \/ priority > nextClusterPriority
    \/ /\ priority = nextClusterPriority
       /\ info.lastProcessed > nextInfo.lastProcessed

\* Preferred without the comparison of lastProcessed.
PreferredByPriorityOnly(priority, info, nextClusterPriority, nextInfo) ==
    priority > nextClusterPriority

\* priority > nextClusterPriority ||
\*   (priority == nextClusterPriority && cluster.lastProcessed.Before(nextCluster.lastProcessed))
Preferred(priority, info, nextClusterPriority, nextInfo) ==
    \/ priority > nextClusterPriority
    \/ /\ priority = nextClusterPriority
       /\ info.lastProcessed < nextInfo.lastProcessed

\* SelectOne that forgets to record the priority of a newly preferred entry.
SelectOneStalePriority(m, acc, id) ==
    IF Skipped(m[id]) THEN acc
    ELSE IF acc.nextCluster = <<>>
         THEN [nextCluster |-> <<id>>, nextClusterPriority |-> updatePriority(m[id].cluster)]
         ELSE IF Preferred(updatePriority(m[id].cluster), m[id],
                           acc.nextClusterPriority, m[acc.nextCluster[1]])
              THEN [acc EXCEPT !.nextCluster = <<id>>]
              ELSE acc

\* One iteration of the scan on (nextCluster, nextClusterPriority); nextCluster
\* is <<>> for nil and <<id>> for the entry of id.
SelectOne(m, acc, id) ==
    IF Skipped(m[id]) THEN acc
    ELSE IF acc.nextCluster = <<>>
         THEN [nextCluster |-> <<id>>, nextClusterPriority |-> updatePriority(m[id].cluster)]
         ELSE LET priority == updatePriority(m[id].cluster) IN
              IF Preferred(priority, m[id], acc.nextClusterPriority, m[acc.nextCluster[1]])
              THEN [nextCluster |-> <<id>>, nextClusterPriority |-> priority]
              ELSE acc

\* for _, cluster := range clusterList.clusters, in the order the map iterator yields
RECURSIVE SelectLoop(_, _, _, _)
SelectLoop(m, order, i, acc) ==
    IF i > Len(order) THEN acc
    ELSE SelectLoop(m, order, i + 1, SelectOne(m, acc, order[i]))

\* The orders in which a range over the map can yield its keys: Go leaves the
\* iteration order of a map unspecified.
IterationOrders(m) ==
    {s \in [1..Cardinality(DOMAIN m) -> DOMAIN m] :
        \A i, j \in 1..Cardinality(DOMAIN m) : i # j => s[i] # s[j]}

\* Mark that leaves the flag as it is.
MarkNothing(info) == info

\* Mark that also resets the stamp of the entry.
MarkStamped(info) == [info EXCEPT !.processing = TRUE, !.lastProcessed = Epoch]

\* nextCluster.processing = true
Mark(info) == [info EXCEPT !.processing = TRUE]

SelectNextCall ==
    /\ \E order \in IterationOrders(clusters) :
         LET acc == SelectLoop(clusters, order, 1,
                               [nextCluster |-> <<>>, nextClusterPriority |-> 0])
         IN IF acc.nextCluster = <<>>
            THEN /\ ret' = <<>>
                 /\ UNCHANGED <<clusters, outstanding>>
            ELSE LET id == acc.nextCluster[1] IN
                 /\ clusters' = [clusters EXCEPT ![id] = Mark(@)]
                 /\ ret' = <<clusters[id].cluster>>
                 /\ outstanding' = outstanding \cup {clusters[id].cluster.ID}
    /\ op' = Call("SelectNext", "", DOMAIN clusters, {}, {}, {})
    /\ UNCHANGED now

\* SelectNext called by a caller that follows no script.
SelectNext == SelectNextCall /\ UNCHANGED <<pc, supplied, bypass, git>>

----------------------------------------------------------------------------
(* ClusterProcessed *)

\* Release that stamps the epoch instead of the clock reading.
ReleaseAtEpoch(info, t) == [info EXCEPT !.processing = FALSE, !.lastProcessed = Epoch]

\* Release that clears the flag and leaves the stamp alone.
ReleaseUnstamped(info, t) == [info EXCEPT !.processing = FALSE]

\* cluster.processing = false; cluster.lastProcessed = time.Now()
Release(info, t) == [info EXCEPT !.processing = FALSE, !.lastProcessed = t]

\* ClusterProcessed that releases every entry.
ClusterProcessedResultAll(m, id, t) ==
    IF id \in DOMAIN m THEN [k \in DOMAIN m |-> Release(m[k], t)] ELSE m

\* The registry after ClusterProcessed(id) when the clock reads t.
ClusterProcessedResult(m, id, t) ==
    IF id \in DOMAIN m THEN [m EXCEPT ![id] = Release(@, t)] ELSE m

\* The clock never runs backwards and never reads earlier than the epoch.
ClusterProcessedCall(id) ==
    \E t \in now..MaxTime :
        /\ clusters' = ClusterProcessedResult(clusters, id, t)
        /\ now' = t
        /\ outstanding' = outstanding \ {id}
        /\ op' = Call("ClusterProcessed", id, DOMAIN clusters, {}, {}, {})
        /\ UNCHANGED ret

\* ClusterProcessed called by a caller that follows no script.
ClusterProcessed(id) == ClusterProcessedCall(id) /\ UNCHANGED <<pc, supplied, bypass, git>>

----------------------------------------------------------------------------
(* The observers of the data taken over and of the order of the returns *)

\* Nothing has been supplied for any ID.
NothingSupplied == [id \in IDs |-> [taken |-> <<>>, refused |-> <<>>]]

\* No ID waits, none has been returned.
NothingBypassed ==
    [x \in IDs |-> [requeued |-> FALSE,
                    returns |-> [y \in IDs |-> 0],
                    recreated |-> [y \in IDs |-> FALSE]]]

----------------------------------------------------------------------------
(* The config source after NewGit *)

MaxRevision == 2

MaxNanos == 2

\* The goroutines that call Get and Delete (the update workers) and those that
\* call Update (the refresh loops), all on the one Git value.
Getters == {1, 2}

Updaters == {3, 4}

Goroutines == Getters \cup Updaters

\* The channels (branches) of the upstream repository.
Channels == {"stable", "beta"}

\* Git.repoName: the name getRepoName parsed from the repository URL.
repoName == "config"

\* A goroutine that is in no call and holds no Config.
Idle ==
    [name |-> "", pc |-> "idle", channel |-> "", repoDir |-> "", version |-> 0,
     err |-> FALSE]

\* No checkout directory exists.
NoCheckouts == [p \in {} |-> [refs |-> [c \in Channels |-> 0], HEAD |-> 0]]

\* NewGit builds the Git value and touches no file: the mirror does not exist,
\* the mutex is unlocked.  Upstream every channel is at its first revision.
NewGit ==
    /\ remote = [c \in Channels |-> 1]
    /\ mirror = <<>>
    /\ mutex = FALSE
    /\ calls = [g \in Goroutines |-> Idle]
    /\ workdir = NoCheckouts
    /\ clock = 1

----------------------------------------------------------------------------
(* The registry under arbitrary callers *)

NoOp == Call("NewClusterList", "", {}, {}, {}, {})

Init ==
    /\ clusters = EmptyMap
    /\ now = Epoch
    /\ op = NoOp
    /\ ret = <<>>
    /\ outstanding = {}
    /\ pc = 0
    /\ supplied = NothingSupplied
    /\ bypass = NothingBypassed
    /\ NewGit

\* What the inventory can report about the clusters of IDs.
Snapshots == Inputs(IDs)

Ingest == \E S \in Snapshots : UpdateAvailable(S)

Report == \E id \in IDs : ClusterProcessed(id)

Next ==
    \/ Ingest
    \/ SelectNext
    \/ Report

Spec == Init /\ [][Next]_vars

----------------------------------------------------------------------------
(* Properties of the registry under arbitrary callers (Spec) *)

ProcessingIds(m) == {id \in DOMAIN m : m[id].processing}

\* C1: single ownership.  A SelectNext call never returns an ID that an earlier
\* SelectNext returned and no ClusterProcessed has reported since, and never an
\* ID whose entry is already processing.
SingleOwnership ==
    [][(op'.name = "SelectNext" /\ ret' # <<>>) =>
         /\ ret'[1].ID \notin outstanding
         /\ ret'[1].ID \in DOMAIN clusters
         /\ ~clusters[ret'[1].ID].processing]_vars

\* SelectNext has returned a cluster while another one was still outstanding.
SingleOwnershipWitness ==
    /\ op.name = "SelectNext"
    /\ ret # <<>>
    /\ outstanding \ {ret[1].ID} # {}

\* C4: retention under omission.  A processing entry whose ID an UpdateAvailable
\* call does not accept stays, unchanged; it stays processing, and so is not
\* returned by SelectNext, through every call other than ClusterProcessed for
\* its ID; ClusterProcessed clears the flag, and an UpdateAvailable call that
\* does not accept the ID of an entry that is not processing removes the entry.
RetentionUnderOmission ==
    [][/\ (op'.name = "UpdateAvailable") =>
            \A id \in (DOMAIN clusters) \ op'.accepted :
                IF clusters[id].processing
                THEN id \in DOMAIN clusters' /\ clusters'[id] = clusters[id]
                ELSE id \notin DOMAIN clusters'
       /\ \A id \in ProcessingIds(clusters) :
            ~(op'.name = "ClusterProcessed" /\ op'.id = id) =>
                /\ id \in ProcessingIds(clusters')
                /\ (op'.name = "SelectNext" /\ ret' # <<>>) => ret'[1].ID # id
       /\ (op'.name = "ClusterProcessed" /\ op'.id \in DOMAIN clusters) =>
            op'.id \in (DOMAIN clusters') \ ProcessingIds(clusters')]_vars

\* An UpdateAvailable call has just run without accepting the ID of an entry
\* that was, and still is, processing.
RetentionUnderOmissionWitness ==
    /\ op.name = "UpdateAvailable"
    /\ \E id \in ProcessingIds(clusters) : id \in op.before /\ id \notin op.accepted

\* C5 as stated, for the IDs whose every supplied record is rejected: after an
\* UpdateAvailable call that is supplied a decommissioned record for an ID, and
\* no record for it that passes the filters, the registry holds no entry for
\* that ID.
DecommissionFilteringAsStated ==
    [][(op'.name = "UpdateAvailable") =>
         (op'.decommissioned \ op'.accepted) \cap DOMAIN clusters' = {}]_vars

\* C5 amended: after an UpdateAvailable call that is supplied a decommissioned
\* record for an ID, the registry holds an entry for that ID only if the entry
\* was processing before the call, and then it is unchanged, or the same call
\* also supplies a record for the ID that passes both filters; and no entry
\* ever stores decommissioned cluster data.
DecommissionFiltering ==
    [][/\ (op'.name = "UpdateAvailable") =>
            \A id \in op'.decommissioned :
                \/ id \notin DOMAIN clusters'
                \/ /\ id \in ProcessingIds(clusters)
                   /\ clusters'[id] = clusters[id]
                \/ id \in op'.accepted
       /\ \A id \in DOMAIN clusters' :
            clusters'[id].cluster.LifecycleStatus # statusDecommissioned]_vars

\* An UpdateAvailable call has just removed a tracked ID for which it was
\* supplied a decommissioned record.
DecommissionFilteringWitness ==
    /\ op.name = "UpdateAvailable"
    /\ \E id \in op.decommissioned \cap op.before : id \notin DOMAIN clusters

\* C6: frozen while processing.  UpdateAvailable leaves every processing entry
\* as it was, whatever it is supplied for the ID, and the cluster data of an
\* entry changes only in a step that found the entry not processing.
FrozenWhileProcessing ==
    [][/\ (op'.name = "UpdateAvailable") =>
            \A id \in ProcessingIds(clusters) :
                id \in DOMAIN clusters' /\ clusters'[id] = clusters[id]
       /\ \A id \in (DOMAIN clusters) \cap (DOMAIN clusters') :
            clusters'[id].cluster # clusters[id].cluster =>
                ~clusters[id].processing /\ op'.name = "UpdateAvailable"]_vars

\* An UpdateAvailable call has just been supplied, for a processing entry, a
\* passing record that differs from the data the entry holds.
FrozenWhileProcessingWitness ==
    /\ op.name = "UpdateAvailable"
    /\ op.withheld \cap ProcessingIds(clusters) # {}

\* C7: reconciliation result.  After UpdateAvailable the tracked IDs are the
\* IDs with a passing record together with the IDs that were processing; each
\* ID the call adds is not processing and has lastProcessed at the epoch; an
\* entry that was not processing and whose ID has no passing record is gone.
ReconciliationResult ==
    [][(op'.name = "UpdateAvailable") =>
         /\ DOMAIN clusters' = op'.accepted \cup ProcessingIds(clusters)
         /\ \A id \in (DOMAIN clusters') \ (DOMAIN clusters) :
              /\ ~clusters'[id].processing
              /\ clusters'[id].lastProcessed = Epoch
         /\ \A id \in (DOMAIN clusters) \ ProcessingIds(clusters) :
              id \notin op'.accepted => id \notin DOMAIN clusters']_vars

\* One UpdateAvailable call has just added one ID and removed another.
ReconciliationResultWitness ==
    /\ op.name = "UpdateAvailable"
    /\ (DOMAIN clusters) \ op.before # {}
    /\ op.before \ (DOMAIN clusters) # {}

\* C8: lastProcessed of an entry never decreases, and it changes only in a
\* ClusterProcessed call for the ID of the entry.
LastProcessedMonotonic ==
    [][\A id \in (DOMAIN clusters) \cap (DOMAIN clusters') :
         /\ clusters'[id].lastProcessed >= clusters[id].lastProcessed
         /\ clusters'[id].lastProcessed # clusters[id].lastProcessed =>
              (op'.name = "ClusterProcessed" /\ op'.id = id)]_vars

\* ClusterProcessed has just stamped a tracked entry with a reading later than
\* the epoch.
LastProcessedMonotonicWitness ==
    /\ op.name = "ClusterProcessed"
    /\ op.id \in DOMAIN clusters
    /\ clusters[op.id].lastProcessed > Epoch
    /\ clusters[op.id].lastProcessed = now

----------------------------------------------------------------------------
(* SelectNext on every registry of three clusters (SelectSpec) *)

ScanIDs == {"x", "y", "z"}

\* The cluster data an entry can hold: records that pass both filters, with
\* NextVersion empty, equal to CurrentVersion and different from it.
Trackable(id) ==
    {Cluster(id, "a1", l, "v1", n) :
        l \in {statusReady, statusDecommissionRequested}, n \in {"", "v1", "v2"}}

\* The entries UpdateAvailable, SelectNext and ClusterProcessed can leave for id
\* when the clock has read up to MaxTime.
Entries(id) ==
    {[lastProcessed |-> t, processing |-> p, cluster |-> c] :
        t \in Epoch..MaxTime, p \in BOOLEAN, c \in Trackable(id)}

\* The registries over ids: any subset tracked, each with any entry.
Registries(ids) ==
    UNION {{m \in [D -> UNION {Entries(id) : id \in D}] :
               \A id \in D : m[id].cluster.ID = id}
           : D \in SUBSET ids}

ScanRegistries == Registries(ScanIDs)

ScanInit ==
    /\ clusters \in ScanRegistries
    /\ now = MaxTime
    /\ op = NoOp
    /\ ret = <<>>
    /\ outstanding = ProcessingIds(clusters)
    /\ pc = 0
    /\ supplied = NothingSupplied
    /\ bypass = NothingBypassed
    /\ NewGit

ScanNext == SelectNext

SelectSpec == ScanInit /\ [][ScanNext]_vars

\* C2: priority ordering.  The cluster SelectNext returns has the highest
\* update priority found among the entries that were not processing, whatever
\* the iteration order and the lastProcessed values.
PriorityOrdering ==
    [][(op'.name = "SelectNext" /\ ret' # <<>>) =>
         \A id \in (DOMAIN clusters) \ ProcessingIds(clusters) :
            updatePriority(clusters[id].cluster) <= updatePriority(ret'[1])]_vars

\* SelectNext has returned a cluster that is mid-update although a normal and a
\* decommission-requested cluster, both selectable, were processed longer ago.
PriorityOrderingWitness ==
    /\ op.name = "SelectNext"
    /\ ret # <<>>
    /\ updatePriority(ret[1]) = updatePriorityAlreadyUpdating
    /\ \E a, b \in (DOMAIN clusters) \ ProcessingIds(clusters) :
         /\ updatePriority(clusters[a].cluster) = updatePriorityNormal
         /\ updatePriority(clusters[b].cluster) = updatePriorityDecommissionRequested
         /\ clusters[a].lastProcessed < clusters[ret[1].ID].lastProcessed
         /\ clusters[b].lastProcessed < clusters[ret[1].ID].lastProcessed

\* C3: fairness tie-break.  No entry that was selectable and has the update
\* priority of the returned cluster has a lastProcessed strictly older than
\* the returned one.
FairnessTieBreak ==
    [][(op'.name = "SelectNext" /\ ret' # <<>>) =>
         \A id \in (DOMAIN clusters) \ ProcessingIds(clusters) :
            updatePriority(clusters[id].cluster) = updatePriority(ret'[1]) =>
                clusters[id].lastProcessed >= clusters[ret'[1].ID].lastProcessed]_vars

\* SelectNext has returned the older of two normal clusters, both processed
\* after the epoch.
FairnessTieBreakWitness ==
    /\ op.name = "SelectNext"
    /\ ret # <<>>
    /\ updatePriority(ret[1]) = updatePriorityNormal
    /\ clusters[ret[1].ID].lastProcessed > Epoch
    /\ \E id \in (DOMAIN clusters) \ ProcessingIds(clusters) :
         /\ updatePriority(clusters[id].cluster) = updatePriorityNormal
         /\ clusters[id].lastProcessed > clusters[ret[1].ID].lastProcessed

----------------------------------------------------------------------------
(* The registry under callers that keep the protocol, with a clock that     *)
(* advances between any two completion reports (FairSpec)                  *)

\* The latest stamp held by an entry, the epoch when there is none.
LatestStamp(m) ==
    IF DOMAIN m = {} THEN Epoch
    ELSE CHOOSE t \in {m[id].lastProcessed : id \in DOMAIN m} :
            \A id \in DOMAIN m : m[id].lastProcessed <= t

\* SelectNext reads the stamps only through Before, so a registry stands for
\* every registry with the same order of stamps: each stamp later than the
\* epoch is replaced by its rank among the stamps held.
Ranked(m) ==
    [id \in DOMAIN m |->
        [m[id] EXCEPT !.lastProcessed =
            Cardinality({m[k].lastProcessed : k \in DOMAIN m}
                            \cap ((Epoch + 1)..m[id].lastProcessed))]]

\* ClusterProcessed for a cluster SelectNext returned and nobody has reported
\* yet, at a clock reading later than every stamp held.
ReportOutstanding(id) ==
    /\ id \in ProcessingIds(clusters)
    /\ clusters' = Ranked(ClusterProcessedResult(clusters, id, LatestStamp(clusters) + 1))
    /\ now' = LatestStamp(clusters')
    /\ outstanding' = outstanding \ {id}
    /\ op' = Call("ClusterProcessed", id, DOMAIN clusters, {}, {}, {})
    /\ UNCHANGED <<ret, pc, supplied, bypass, git>>

\* The inventory of the fair runs: each cluster absent, normal or mid-update.
FairSnapshots ==
    {S \in UniqueInputs(IDs) :
        \A i \in 1..Len(S) :
            S[i].InfrastructureAccount = "a1" /\ S[i].LifecycleStatus = statusReady}

FairIngest == \E S \in FairSnapshots : UpdateAvailable(S)

FairReport == \E id \in IDs : ReportOutstanding(id)

FairNext ==
    \/ FairIngest
    \/ SelectNext
    \/ FairReport

\* The worker loop keeps calling SelectNext and reports every cluster it was
\* given; the inventory refresh is under no obligation.
FairSpec ==
    /\ Init
    /\ [][FairNext]_vars
    /\ WF_vars(SelectNext)
    /\ \A id \in IDs : WF_vars(ReportOutstanding(id))

Returned(id) == op.name = "SelectNext" /\ ret # <<>> /\ ret[1].ID = id

\* All tracked clusters have the same update priority.
SameTier(m) ==
    \A a, b \in DOMAIN m : updatePriority(m[a].cluster) = updatePriority(m[b].cluster)

\* The last call was an UpdateAvailable that removed an entry.
Evicted == op.name = "UpdateAvailable" /\ op.before \ (DOMAIN clusters) # {}

\* C9 as stated: every cluster that stays tracked is eventually returned by
\* SelectNext.
NoStarvationAsStated ==
    \A id \in IDs :
        (id \in DOMAIN clusters) ~> (Returned(id) \/ id \notin DOMAIN clusters)

\* C9 amended: with a clock that advances between reports and ClusterProcessed
\* called only for outstanding clusters, a tracked cluster is eventually
\* returned by SelectNext unless, before that, the tracked clusters come to
\* differ in update priority or UpdateAvailable removes an entry.
NoStarvation ==
    \A id \in IDs :
        (id \in DOMAIN clusters) ~>
            (Returned(id) \/ ~SameTier(clusters) \/ Evicted)

\* A cluster processed before has come round again: SelectNext has returned
\* it when every other tracked cluster, all of its tier, had a later stamp.
NoStarvationWitness ==
    \E id \in IDs :
        /\ Returned(id)
        /\ SameTier(clusters)
        /\ DOMAIN clusters = IDs
        /\ clusters[id].lastProcessed > Epoch
        /\ \A k \in IDs \ {id} : clusters[k].lastProcessed > clusters[id].lastProcessed

----------------------------------------------------------------------------
(* One caller running the release cycle on a fresh registry (CycleSpec):   *)
(* UpdateAvailable([c]); SelectNext; SelectNext; ClusterProcessed(c.ID);   *)
(* SelectNext, for a ready cluster c of the allowed account.               *)

CycleRecords ==
    {Cluster(id, "a1", statusReady, cur, next) :
        id \in ScanIDs, cur \in {"v1", "v2"}, next \in {"", "v1", "v2"}}

\* The ID the script works on: the one tracked once the first call is made.
CycleId == CHOOSE id \in DOMAIN clusters : TRUE

CycleIngest ==
    /\ pc = 0
    /\ \E c \in CycleRecords : UpdateAvailableCall(<<c>>)
    /\ pc' = 1
    /\ UNCHANGED <<supplied, bypass, git>>

CycleFirstSelect ==
    /\ pc = 1
    /\ SelectNextCall
    /\ pc' = 2
    /\ UNCHANGED <<supplied, bypass, git>>

CycleSecondSelect ==
    /\ pc = 2
    /\ SelectNextCall
    /\ pc' = 3
    /\ UNCHANGED <<supplied, bypass, git>>

CycleReport ==
    /\ pc = 3
    /\ ClusterProcessedCall(CycleId)
    /\ pc' = 4
    /\ UNCHANGED <<supplied, bypass, git>>

CycleThirdSelect ==
    /\ pc = 4
    /\ SelectNextCall
    /\ pc' = 5
    /\ UNCHANGED <<supplied, bypass, git>>

CycleNext ==
    \/ CycleIngest
    \/ CycleFirstSelect
    \/ CycleSecondSelect
    \/ CycleReport
    \/ CycleThirdSelect

CycleSpec == Init /\ [][CycleNext]_vars

\* C10: end-to-end release cycle.  The first SelectNext yields the ingested
\* cluster, the second yields nothing, the third, after ClusterProcessed,
\* yields the cluster again, and its entry is processing after the first and
\* after the third SelectNext.
ReleaseCycle ==
    /\ pc >= 1 => Cardinality(DOMAIN clusters) = 1
    /\ pc = 2 =>
         /\ ret = <<clusters[CycleId].cluster>>
         /\ ret[1].ID = CycleId
         /\ clusters[CycleId].processing
    /\ pc = 3 => ret = <<>>
    /\ pc = 5 =>
         /\ ret = <<clusters[CycleId].cluster>>
         /\ ret[1].ID = CycleId
         /\ clusters[CycleId].processing

\* The script has run to its end, the report stamped after the epoch.
ReleaseCycleWitness ==
    /\ pc = 5
    /\ ret # <<>>
    /\ clusters[CycleId].processing
    /\ clusters[CycleId].lastProcessed > Epoch

----------------------------------------------------------------------------
(* The effect of single calls (Spec) *)

\* C11: SelectNext returns nothing exactly when no entry is selectable, and
\* then leaves the registry as it was; otherwise exactly one entry changes,
\* from not processing to processing and in nothing else, and the value
\* returned is the cluster data that entry holds.
SelectNextEffect ==
    [][(op'.name = "SelectNext") =>
         /\ (ret' = <<>>) <=> ((DOMAIN clusters) \ ProcessingIds(clusters) = {})
         /\ (ret' = <<>>) => clusters' = clusters
         /\ (ret' # <<>>) =>
              \E id \in (DOMAIN clusters) \ ProcessingIds(clusters) :
                 /\ clusters' = [clusters EXCEPT ![id].processing = TRUE]
                 /\ ret' = <<clusters[id].cluster>>]_vars

\* SelectNext has returned nothing on a registry that is not empty: every
\* entry is processing.
SelectNextEffectWitness ==
    /\ op.name = "SelectNext"
    /\ ret = <<>>
    /\ DOMAIN clusters = IDs
    /\ ProcessingIds(clusters) = IDs

\* C12: ClusterProcessed(id) leaves the set of tracked IDs and every entry
\* other than the one of id as they were; the entry of id ends not processing,
\* stamped with the clock reading of the call and with the cluster data it had;
\* when id is not tracked nothing changes.
ClusterProcessedFrame ==
    [][(op'.name = "ClusterProcessed") =>
         /\ DOMAIN clusters' = DOMAIN clusters
         /\ \A k \in (DOMAIN clusters) \ {op'.id} : clusters'[k] = clusters[k]
         /\ op'.id \in DOMAIN clusters =>
              clusters'[op'.id] = [lastProcessed |-> now', processing |-> FALSE,
                                   cluster |-> clusters[op'.id].cluster]
         /\ op'.id \notin DOMAIN clusters => clusters' = clusters]_vars

\* ClusterProcessed has just been called for an ID that is not tracked while
\* another cluster is tracked and processing.
ClusterProcessedFrameWitness ==
    /\ op.name = "ClusterProcessed"
    /\ op.id \notin DOMAIN clusters
    /\ ProcessingIds(clusters) # {}

----------------------------------------------------------------------------
(* What SelectNext can return from one registry (Spec) *)

\* The values nextCluster can have after the scan, over the orders in which
\* the range over the map can yield the entries.
SelectOutcomes(m) ==
    {SelectLoop(m, order, 1,
                [nextCluster |-> <<>>, nextClusterPriority |-> 0]).nextCluster :
        order \in IterationOrders(m)}

\* The selectable entries of the highest update priority that, among those,
\* have the oldest lastProcessed.
Foremost(m) ==
    {id \in (DOMAIN m) \ ProcessingIds(m) :
        \A k \in (DOMAIN m) \ ProcessingIds(m) :
            \/ updatePriority(m[k].cluster) < updatePriority(m[id].cluster)
            \/ /\ updatePriority(m[k].cluster) = updatePriority(m[id].cluster)
               /\ m[k].lastProcessed >= m[id].lastProcessed}

\* C17 as stated: the cluster SelectNext returns is a function of the registry
\* contents alone: from one registry every run of the scan ends on the same
\* entry.
SelectDeterministic == Cardinality(SelectOutcomes(clusters)) = 1

\* C17 amended: SelectNext returns one of the selectable entries of the highest
\* priority with the oldest lastProcessed, and each of them can be the one
\* returned, depending on the order in which the map is iterated; the result
\* is a function of the registry only when there is no tie.
SelectAmongForemost ==
    SelectOutcomes(clusters) =
        IF (DOMAIN clusters) \ ProcessingIds(clusters) = {}
        THEN {<<>>}
        ELSE {<<id>> : id \in Foremost(clusters)}

\* SelectNext has returned one of two clusters that were tied: the other is
\* selectable, of the same priority and with the same lastProcessed.
SelectAmongForemostWitness ==
    /\ op.name = "SelectNext"
    /\ ret # <<>>
    /\ \E id \in (DOMAIN clusters) \ ProcessingIds(clusters) :
         /\ updatePriority(clusters[id].cluster) = updatePriority(ret[1])
         /\ clusters[id].lastProcessed = clusters[ret[1].ID].lastProcessed

----------------------------------------------------------------------------
(* Where the data SelectNext returns comes from (ProvenanceSpec) *)

\* The records of S for id that pass the filters of UpdateAvailable, in order.
Offered(S, id) == SelectSeq(S, LAMBDA c : c.ID = id /\ Passes(c))

\* The observer after UpdateAvailable(S) on the registry m: for each ID still
\* tracked, the last record offered while the entry was absent or not
\* processing (taken), and the last one offered while it was processing and
\* since the last one taken (refused).
Supply(m, S) ==
    [id \in IDs |->
        LET offered == Offered(S, id) IN
        IF id \notin DOMAIN UpdateAvailableResult(m, S)
        THEN [taken |-> <<>>, refused |-> <<>>]
        ELSE IF offered = <<>> THEN supplied[id]
        ELSE IF id \in DOMAIN m /\ m[id].processing
        THEN [supplied[id] EXCEPT !.refused = <<offered[Len(offered)]>>]
        ELSE [taken |-> <<offered[Len(offered)]>>, refused |-> <<>>]]

\* The inventory of these runs: up to two records, in any order, each of any of
\* the IDs, ready, mid-update or decommissioned.
ProvenanceRecords ==
    {c \in UNION {Records(id) : id \in IDs} :
        c.InfrastructureAccount = "a1" /\ c.LifecycleStatus # statusDecommissionRequested}

ProvenanceSnapshots ==
    {<<>>} \cup {<<a>> : a \in ProvenanceRecords}
           \cup {<<a, b>> : a, b \in ProvenanceRecords}

ProvenanceIngest ==
    \E S \in ProvenanceSnapshots :
        /\ UpdateAvailableCall(S)
        /\ supplied' = Supply(clusters, S)
        /\ UNCHANGED <<pc, bypass, git>>

ProvenanceNext ==
    \/ ProvenanceIngest
    \/ SelectNext
    \/ Report

ProvenanceSpec == Init /\ [][ProvenanceNext]_vars

\* C20: provenance of returned data.  The cluster value SelectNext returns is
\* the one supplied for its ID by the most recent UpdateAvailable that accepted
\* the ID while its entry was absent or not processing; what was supplied
\* while the entry was processing is not what is returned, also on the first
\* SelectNext after ClusterProcessed.
Provenance ==
    [][(op'.name = "SelectNext" /\ ret' # <<>>) =>
         \E id \in (DOMAIN clusters) \ ProcessingIds(clusters) :
            /\ clusters'[id].processing
            /\ ret' = supplied[id].taken]_vars

\* SelectNext has returned a cluster for which other data was supplied while
\* it was processing, with no UpdateAvailable for it since it was released.
ProvenanceWitness ==
    /\ op.name = "SelectNext"
    /\ ret # <<>>
    /\ supplied[ret[1].ID].refused # <<>>
    /\ supplied[ret[1].ID].refused # ret
    /\ clusters[ret[1].ID].lastProcessed > Epoch

----------------------------------------------------------------------------
(* The order of the returns within a tier, with a clock that advances       *)
(* between any two completion reports and callers that may report any ID   *)
(* at any time (BypassSpec)                                                *)

\* ClusterProcessed(id) for any ID, tracked or not, processing or not, at a
\* clock reading later than every stamp held.
ReportLater(id) ==
    /\ clusters' = Ranked(ClusterProcessedResult(clusters, id, LatestStamp(clusters) + 1))
    /\ now' = LatestStamp(clusters')
    /\ outstanding' = outstanding \ {id}
    /\ op' = Call("ClusterProcessed", id, DOMAIN clusters, {}, {}, {})
    /\ UNCHANGED ret

\* The entry of x is tracked and not processing: SelectNext can return it.
Waiting(m, x) == x \in DOMAIN m /\ ~m[x].processing

\* The observer after a call o that took the registry from m to m2 and
\* returned r.  For each x that waits while all tracked clusters are of one
\* tier it holds, since x began to wait: whether ClusterProcessed(x) was
\* called, how often SelectNext returned each other y (2 stands for twice or
\* more), and whether UpdateAvailable created the entry of y anew after y had
\* been returned.
Observe(m, m2, o, r) ==
    [x \in IDs |->
        IF ~(Waiting(m2, x) /\ SameTier(m2)) THEN NothingBypassed[x]
        ELSE LET b == IF Waiting(m, x) /\ SameTier(m) THEN bypass[x]
                      ELSE NothingBypassed[x]
             IN [requeued |->
                    b.requeued \/ (o.name = "ClusterProcessed" /\ o.id = x /\ Waiting(m, x)),
                 returns |->
                    [y \in IDs |->
                        IF o.name = "SelectNext" /\ r # <<>> /\ r[1].ID = y /\ y # x
                        THEN IF b.returns[y] = 0 THEN 1 ELSE 2
                        ELSE b.returns[y]],
                 recreated |->
                    [y \in IDs |->
                        \/ b.recreated[y]
                        \/ /\ o.name = "UpdateAvailable"
                           /\ y \notin DOMAIN m
                           /\ y \in DOMAIN m2
                           /\ b.returns[y] > 0]]]

BypassIngest ==
    \E S \in FairSnapshots :
        /\ UpdateAvailableCall(S)
        /\ bypass' = Observe(clusters, clusters', op', ret')
        /\ UNCHANGED <<pc, supplied, git>>

BypassSelect ==
    /\ SelectNextCall
    /\ bypass' = Observe(clusters, clusters', op', ret')
    /\ UNCHANGED <<pc, supplied, git>>

BypassReport ==
    \E id \in IDs :
        /\ ReportLater(id)
        /\ bypass' = Observe(clusters, clusters', op', ret')
        /\ UNCHANGED <<pc, supplied, git>>

BypassNext ==
    \/ BypassIngest
    \/ BypassSelect
    \/ BypassReport

BypassSpec == Init /\ [][BypassNext]_vars

\* C19 as stated: while x is tracked and not processing and all tracked
\* clusters are of one tier, SelectNext returns every other cluster at most
\* once before it returns x, unless UpdateAvailable removed that cluster and
\* created it anew.
BoundedBypassAsStated ==
    \A x, y \in IDs : ~bypass[x].recreated[y] => bypass[x].returns[y] < 2

\* C19 amended: the same, provided ClusterProcessed(x) is not called while x
\* waits; a ClusterProcessed for a waiting x gives x the latest stamp and lets
\* the others be returned again before it.
BoundedBypass ==
    \A x, y \in IDs :
        (~bypass[x].recreated[y] /\ ~bypass[x].requeued) => bypass[x].returns[y] < 2

\* y has been returned once while x waited, has been released with a later
\* stamp and waits again, behind x.
BoundedBypassWitness ==
    \E x, y \in IDs :
        /\ x # y
        /\ Waiting(clusters, x) /\ Waiting(clusters, y)
        /\ SameTier(clusters)
        /\ bypass[x].returns[y] = 1
        /\ ~bypass[x].recreated[y] /\ ~bypass[x].requeued
        /\ clusters[y].lastProcessed > clusters[x].lastProcessed

\* An entry UpdateAvailable removed and created anew has been returned ahead
\* of the waiting x a second time.
ReturnedAgainAfterRecreation ==
    \E x, y \in IDs :
        /\ Waiting(clusters, x)
        /\ bypass[x].recreated[y] /\ ~bypass[x].requeued
        /\ bypass[x].returns[y] = 2

----------------------------------------------------------------------------
(* The config source (channel/git.go).  Get, Delete and Update are called   *)
(* by concurrent goroutines; each git subprocess a call runs is one step.   *)
(* A call record holds the method, the position in it, Get's channel, the  *)
(* checkout path, the Version of the Config returned and whether the call  *)
(* returned an error.                                                      *)

\* Git.workdir
workdirPath == "/work"

\* path.Join(g.workdir, fmt.Sprintf("%s_%s_%d", g.repoName, channel, nanos))
CheckoutPath(channel, nanos) ==
    workdirPath \o "/" \o repoName \o "_" \o channel \o "_" \o ToString(nanos)

\* The branch HEAD of the upstream repository points to.
defaultBranch == "stable"

\* git clone: a working copy with the refs of the source, on the default branch.
Clone(src) == [refs |-> src[1], HEAD |-> src[1][defaultBranch]]

\* git clone fails when the source repository does not exist, and when the
\* destination path exists and is not an empty directory.
CloneFails(src, fs, dir) == src = <<>> \/ dir \in DOMAIN fs

\* git -C dir checkout channel: HEAD moves to the revision of the branch.
Checkout(wc, channel) == [wc EXCEPT !.HEAD = wc.refs[channel]]

\* git checkout fails when the directory is gone or has no such branch.
CheckoutFails(fs, dir, channel) == dir \notin DOMAIN fs \/ fs[dir].refs[channel] = 0

\* The revision the mirror has for the default branch.
currentRevisionOfMirror(fs, dir) == mirror[1][defaultBranch]

\* git -C dir rev-parse HEAD
currentRevision(fs, dir) == fs[dir].HEAD

\* os.RemoveAll that removes nothing.
RemoveNothing(fs, dir) == fs

\* os.RemoveAll(dir): the directory and all it holds are gone; a path that does
\* not exist is no error.
RemoveAll(fs, dir) == [p \in (DOMAIN fs) \ {dir} |-> fs[p]]

\* A create of the directory dir holding the working copy wc.
Create(fs, dir, wc) == [p \in (DOMAIN fs) \cup {dir} |-> IF p = dir THEN wc ELSE fs[p]]

\* A lock that never waits.
CanLockAlways(locked) == TRUE

\* sync.Mutex.Lock returns only when the mutex is unlocked.
CanLock(locked) == ~locked

\* The goroutine is in no call and owns no snapshot: it can start a call.
Resting(g) == calls[g].pc \in {"idle", "deleted"}

\* The call of g returns err.
Fail(g) == [Idle EXCEPT !.name = calls[g].name, !.err = TRUE]

\* Get(channel), line 117: the path is built from the clock reading.
GetStart(g, channel) ==
    /\ Resting(g)
    /\ calls' = [calls EXCEPT ![g] =
                    [name |-> "Get", pc |-> "clone", channel |-> channel,
                     repoDir |-> CheckoutPath(channel, clock), version |-> 0,
                     err |-> FALSE]]
    /\ UNCHANGED <<remote, mirror, mutex, workdir, clock>>

\* localClone, lines 119-123: git clone file://<mirror> repoDir
LocalClone(g) ==
    /\ calls[g].pc = "clone"
    /\ IF CloneFails(mirror, workdir, calls[g].repoDir)
       THEN /\ calls' = [calls EXCEPT ![g] = Fail(g)]
            /\ UNCHANGED workdir
       ELSE /\ workdir' = Create(workdir, calls[g].repoDir, Clone(mirror))
            /\ calls' = [calls EXCEPT ![g].pc = "checkout"]
    /\ UNCHANGED <<remote, mirror, mutex, clock>>

\* The clone step of a Get that first waits for the mutex of Update.
GetCloneUnderLock(g) == ~mutex /\ LocalClone(g)

\* Get takes no lock: the clone step runs whatever the state of the mutex.
GetClone(g) == LocalClone(g)

\* localClone, lines 125-130: git -C repoDir checkout channel
GetCheckout(g) ==
    /\ calls[g].pc = "checkout"
    /\ IF CheckoutFails(workdir, calls[g].repoDir, calls[g].channel)
       THEN /\ calls' = [calls EXCEPT ![g] = Fail(g)]
            /\ UNCHANGED workdir
       ELSE /\ workdir' = [workdir EXCEPT ![calls[g].repoDir] =
                                             Checkout(@, calls[g].channel)]
            /\ calls' = [calls EXCEPT ![g].pc = "revision"]
    /\ UNCHANGED <<remote, mirror, mutex, clock>>

\* Get, lines 70-78: currentRevision(repoDir), then the Config is returned and
\* the caller owns the snapshot.
GetRevision(g) ==
    /\ calls[g].pc = "revision"
    /\ IF calls[g].repoDir \notin DOMAIN workdir
       THEN calls' = [calls EXCEPT ![g] = Fail(g)]
       ELSE calls' = [calls EXCEPT ![g].pc = "holding",
                                   ![g].version = currentRevision(workdir, calls[g].repoDir)]
    /\ UNCHANGED <<remote, mirror, mutex, workdir, clock>>

\* Delete(config) with the Config the goroutine got from Get: for the first
\* time, after which the goroutine still has the Config at hand, and for the
\* second time.
Delete(g) ==
    /\ calls[g].pc \in {"holding", "deleted"}
    /\ workdir' = RemoveAll(workdir, calls[g].repoDir)
    /\ calls' = [calls EXCEPT ![g] =
                    IF calls[g].pc = "holding"
                    THEN [Idle EXCEPT !.name = "Delete", !.pc = "deleted",
                                      !.repoDir = calls[g].repoDir]
                    ELSE [Idle EXCEPT !.name = "Delete"]]
    /\ UNCHANGED <<remote, mirror, mutex, clock>>

\* Update is called: the goroutine is at g.mutex.Lock().
UpdateStart(g) ==
    /\ Resting(g)
    /\ calls' = [calls EXCEPT ![g] = [Idle EXCEPT !.name = "Update", !.pc = "lock"]]
    /\ UNCHANGED <<remote, mirror, mutex, workdir, clock>>

\* Update, line 88: g.mutex.Lock()
UpdateLock(g) ==
    /\ calls[g].pc = "lock"
    /\ CanLock(mutex)
    /\ mutex' = TRUE
    /\ calls' = [calls EXCEPT ![g].pc = "stat"]
    /\ UNCHANGED <<remote, mirror, workdir, clock>>

\* Update, lines 91-101: os.Stat(repoDir), and git clone --mirror when the
\* mirror does not exist.
UpdateStat(g) ==
    /\ calls[g].pc = "stat"
    /\ mirror' = IF mirror = <<>> THEN <<remote>> ELSE mirror
    /\ calls' = [calls EXCEPT ![g].pc = "fetch"]
    /\ UNCHANGED <<remote, mutex, workdir, clock>>

\* Update, line 103: git --git-dir repoDir remote update --prune
UpdateFetch(g) ==
    /\ calls[g].pc = "fetch"
    /\ mirror' = <<remote>>
    /\ calls' = [calls EXCEPT ![g].pc = "unlock"]
    /\ UNCHANGED <<remote, mutex, workdir, clock>>

\* Update returns: the deferred g.mutex.Unlock() runs.
UpdateReturn(g) ==
    /\ calls[g].pc = "unlock"
    /\ mutex' = FALSE
    /\ calls' = [calls EXCEPT ![g] = Idle]
    /\ UNCHANGED <<remote, mirror, workdir, clock>>

\* The channels that receive commits in these runs.
Advancing == {defaultBranch}

\* A commit is pushed to a channel of the upstream repository.
Push(c) ==
    /\ remote[c] < MaxRevision
    /\ remote' = [remote EXCEPT ![c] = @ + 1]
    /\ UNCHANGED <<mirror, mutex, calls, workdir, clock>>

\* The clock advances.  Between two readings it need not: the readings are
\* wall-clock times, of the resolution and steadiness of the system clock.
Tick ==
    /\ clock < MaxNanos
    /\ clock' = clock + 1
    /\ UNCHANGED <<remote, mirror, mutex, calls, workdir>>

GetCall(g) ==
    \/ \E channel \in Channels : GetStart(g, channel)
    \/ GetClone(g)
    \/ GetCheckout(g)
    \/ GetRevision(g)

UpdateCall(g) ==
    \/ UpdateStart(g)
    \/ UpdateLock(g)
    \/ UpdateStat(g)
    \/ UpdateFetch(g)
    \/ UpdateReturn(g)

GitNext ==
    \/ \E g \in Getters : GetCall(g) /\ UNCHANGED list
    \/ \E g \in Getters : Delete(g) /\ UNCHANGED list
    \/ \E g \in Updaters : UpdateCall(g) /\ UNCHANGED list
    \/ \E c \in Advancing : Push(c) /\ UNCHANGED list
    \/ Tick /\ UNCHANGED list

GitSpec == Init /\ [][GitNext]_vars

----------------------------------------------------------------------------
(* Properties of the config source (GitSpec) *)

\* The goroutines that own a snapshot: Get returned it and it has not been
\* passed to Delete.
Outstanding == {g \in Getters : calls[g].pc = "holding"}

\* C13: snapshot path uniqueness.  No two outstanding snapshots have the same
\* Path, and the Path of each is built from the repository name, its channel
\* and a reading of the clock.
PathUniqueness ==
    /\ \A g, h \in Outstanding : g # h => calls[g].repoDir # calls[h].repoDir
    /\ \A g \in Outstanding :
          \E n \in 1..clock : calls[g].repoDir = CheckoutPath(calls[g].channel, n)

\* C14: idempotent deletion.  Delete returns no error and leaves no directory
\* at the snapshot's path, whether the directory existed or was gone already;
\* it touches no other directory, and when the directory was gone already it
\* leaves the filesystem as it was: Delete; Delete ends where Delete ends.
DeleteIdempotent ==
    [][\A g \in Getters :
          (calls'[g] # calls[g] /\ calls'[g].name = "Delete") =>
             /\ ~calls'[g].err
             /\ calls[g].repoDir \notin DOMAIN workdir'
             /\ DOMAIN workdir' \subseteq DOMAIN workdir
             /\ \A p \in (DOMAIN workdir) \ {calls[g].repoDir} :
                   p \in DOMAIN workdir' /\ workdir'[p] = workdir[p]
             /\ calls[g].repoDir \notin DOMAIN workdir => workdir' = workdir]_vars

\* A goroutine has passed its snapshot to Delete a second time, without error,
\* while the other one owns a snapshot.
DeleteIdempotentWitness ==
    \E g, h \in Getters :
        /\ calls[g].name = "Delete" /\ calls[g].pc = "idle" /\ ~calls[g].err
        /\ calls[h].pc = "holding"
        /\ calls[h].repoDir \in DOMAIN workdir

\* The goroutines inside the section of Update between Lock and Unlock.
InSection == {g \in Goroutines : calls[g].pc \in {"stat", "fetch", "unlock"}}

\* C15: mirror mutation is serialized and confined to Update.  At most one
\* Update is between Lock and Unlock, and no step of Get (or Delete) changes
\* the mirror.
MirrorSerialized ==
    [][/\ Cardinality(InSection') < 2
       /\ \A g \in Getters : calls'[g] # calls[g] => mirror' = mirror]_vars

\* One Update fetches, the other waits for the mutex, and a Get has cloned
\* from the mirror meanwhile.
MirrorSerializedWitness ==
    \E u, v \in Updaters :
        /\ calls[u].pc = "fetch"
        /\ calls[v].pc = "lock"
        /\ mirror # <<>>
        /\ \E g \in Getters : calls[g].pc = "checkout"

\* The call of h took a step of Get that is not a step on the path dir.
OtherGetStep(h, dir) ==
    /\ calls'[h] # calls[h]
    /\ calls'[h].name = "Get"
    /\ calls[h].pc \in {"clone", "checkout", "revision"} => calls[h].repoDir # dir

\* C18: snapshot version consistency.  The Version Get returns is the revision
\* checked out in the working copy at its Path, whatever the mirror has come to
\* hold since the clone; and no step of Update and no step of another Get on a
\* different path changes an outstanding snapshot, its Version or its content.
VersionConsistency ==
    [][\A g \in Getters :
          /\ (calls[g].pc = "revision" /\ calls'[g].pc = "holding") =>
                /\ calls'[g].repoDir \in DOMAIN workdir'
                /\ calls'[g].version = workdir'[calls'[g].repoDir].HEAD
          /\ (/\ calls[g].pc = "holding"
              /\ \/ \E u \in Updaters : calls'[u] # calls[u]
                 \/ \E h \in Getters \ {g} : OtherGetStep(h, calls[g].repoDir)) =>
                /\ calls'[g] = calls[g]
                /\ calls[g].repoDir \in DOMAIN workdir =>
                      /\ calls[g].repoDir \in DOMAIN workdir'
                      /\ workdir'[calls[g].repoDir] = workdir[calls[g].repoDir]]_vars

\* A snapshot is outstanding at the revision it was cloned at while the mirror
\* has a later revision of its channel, and the other goroutine is in a Get on
\* another path.
VersionConsistencyWitness ==
    \E g, h \in Getters :
        /\ calls[g].pc = "holding"
        /\ calls[g].repoDir \in DOMAIN workdir
        /\ calls[g].version = workdir[calls[g].repoDir].HEAD
        /\ mirror # <<>>
        /\ mirror[1][calls[g].channel] > calls[g].version
        /\ calls[h].pc = "revision"
        /\ calls[h].repoDir # calls[g].repoDir

----------------------------------------------------------------------------
(* Get and Delete while one Update holds the mutex from the first state to *)
(* the last (LockedSpec)                                                   *)

\* An Update is at its fetch, the mutex locked; the mirror exists.
LockedInit ==
    /\ clusters = EmptyMap
    /\ now = Epoch
    /\ op = NoOp
    /\ ret = <<>>
    /\ outstanding = {}
    /\ pc = 0
    /\ supplied = NothingSupplied
    /\ bypass = NothingBypassed
    /\ remote = [c \in Channels |-> 1]
    /\ mirror = <<remote>>
    /\ mutex = TRUE
    /\ \E u \in Updaters :
          calls = [g \in Goroutines |->
                      IF g = u THEN [Idle EXCEPT !.name = "Update", !.pc = "fetch"]
                      ELSE Idle]
    /\ workdir = NoCheckouts
    /\ clock = 1

LockedNext ==
    \/ \E g \in Getters : GetCall(g) /\ UNCHANGED list
    \/ \E g \in Getters : Delete(g) /\ UNCHANGED list
    \/ \E c \in Advancing : Push(c) /\ UNCHANGED list
    \/ Tick /\ UNCHANGED list

LockedSpec == LockedInit /\ [][LockedNext]_vars

\* C16: Get never waits on the Update lock.  While an Update holds the mutex,
\* every goroutine that is not the owner of a snapshot can take the next step
\* of a Get: start one, clone, check out, look up the revision and return,
\* whatever the other goroutines are doing.
GetNeverWaits ==
    /\ mutex
    /\ \A g \in Getters :
          calls[g].pc # "holding" => ENABLED (GetCall(g) /\ UNCHANGED list)

\* Both goroutines have run a Get from its start to its return, the mutex
\* locked all the while, and own their snapshots.
GetNeverWaitsWitness ==
    /\ mutex
    /\ \A g \in Getters : calls[g].pc = "holding" /\ calls[g].repoDir \in DOMAIN workdir

====
